---- MODULE Spec2Model ----
(***************************************************************************)
(* A model of md-viewer.py: a single-threaded HTTP server that lists a     *)
(* directory tree and renders its Markdown files.                          *)
(*                                                                         *)
(* A Python str is a sequence of one-character strings; a path is such a   *)
(* str, exactly as the program handles it.  The os.path, pathlib and       *)
(* urllib functions the handler calls are operators over these sequences,  *)
(* computed the way CPython's posixpath / pathlib / urllib.parse compute   *)
(* them.  The filesystem is a finite tree of nodes looked up the way the   *)
(* kernel resolves a path (component by component, following symbolic      *)
(* links).                                                                 *)
(***************************************************************************)
EXTENDS Integers, Sequences, FiniteSets, TLC

(***************************************************************************)
(* Bounds of the model.                                                    *)
(***************************************************************************)
\* longest request path, counted in '/'-separated segments
MaxSegs == 2
\* symbolic links followed while resolving one path before ELOOP
MaxLinkHops == 2

(***************************************************************************)
(* str helpers                                                             *)
(***************************************************************************)
SEP == "/"

LowerCase == << "a","b","c","d","e","f","g","h","i","j","k","l","m",
                "n","o","p","q","r","s","t","u","v","w","x","y","z" >>
UpperCase == << "A","B","C","D","E","F","G","H","I","J","K","L","M",
                "N","O","P","Q","R","S","T","U","V","W","X","Y","Z" >>
Digits == { "0","1","2","3","4","5","6","7","8","9" }

IsLower(c) == \E i \in 1..26 : LowerCase[i] = c
IsUpper(c) == \E i \in 1..26 : UpperCase[i] = c
ToUpper(c) == IF IsLower(c) THEN UpperCase[CHOOSE i \in 1..26 : LowerCase[i] = c] ELSE c
ToLower(c) == IF IsUpper(c) THEN LowerCase[CHOOSE i \in 1..26 : UpperCase[i] = c] ELSE c

\* str.lower()
Lower(s) == [i \in 1..Len(s) |-> ToLower(s[i])]

\* str.startswith / str.endswith
StartsWith(s, p) == Len(p) <= Len(s) /\ SubSeq(s, 1, Len(p)) = p
EndsWith(s, p) == Len(p) <= Len(s) /\ SubSeq(s, Len(s) - Len(p) + 1, Len(s)) = p

\* str.lstrip(c) for a single character c
RECURSIVE LStrip(_, _)
LStrip(s, c) == IF s # << >> /\ Head(s) = c THEN LStrip(Tail(s), c) ELSE s

\* str.replace(a, b) for single characters
Replace(s, a, b) == [i \in 1..Len(s) |-> IF s[i] = a THEN b ELSE s[i]]

\* str.title(): a cased character is upper-cased when the character before
\* it is not cased, and lower-cased when it is
IsCased(c) == IsLower(c) \/ IsUpper(c)
Title(s) ==
    [i \in 1..Len(s) |->
        IF ~IsCased(s[i]) THEN s[i]
        ELSE IF i > 1 /\ IsCased(s[i-1]) THEN ToLower(s[i]) ELSE ToUpper(s[i])]

\* str.split(sep) for a single character separator
RECURSIVE SplitAcc(_, _, _)
SplitAcc(s, c, cur) ==
    IF s = << >> THEN << cur >>
    ELSE IF Head(s) = c THEN << cur >> \o SplitAcc(Tail(s), c, << >>)
    ELSE SplitAcc(Tail(s), c, Append(cur, Head(s)))
Split(s, c) == SplitAcc(s, c, << >>)

\* sep.join(list)
RECURSIVE JoinWith(_, _)
JoinWith(list, c) ==
    IF list = << >> THEN << >>
    ELSE IF Len(list) = 1 THEN list[1]
    ELSE list[1] \o << c >> \o JoinWith(Tail(list), c)

\* str.rfind(c): 1-based index of the last occurrence, 0 when absent
RFind(s, c) == IF \E i \in 1..Len(s) : s[i] = c
               THEN CHOOSE i \in 1..Len(s) : s[i] = c /\ \A j \in (i+1)..Len(s) : s[j] # c
               ELSE 0

\* str < str, by code point; only the order of the characters of the
\* modelled names matters: ' ' < '-' < '.' < digits < upper < '_' < lower
CodePoint(c) ==
    CASE c = " " -> 32 [] c = "#" -> 35 [] c = "%" -> 37 [] c = "-" -> 45
      [] c = "." -> 46 [] c = "/" -> 47 [] c = "?" -> 63 [] c = "_" -> 95
      [] c = "~" -> 126
      [] c \in Digits -> 48 + (CHOOSE d \in 0..9 :
             << "0","1","2","3","4","5","6","7","8","9" >>[d+1] = c)
      [] IsUpper(c) -> 64 + (CHOOSE i \in 1..26 : UpperCase[i] = c)
      [] IsLower(c) -> 96 + (CHOOSE i \in 1..26 : LowerCase[i] = c)

RECURSIVE StrLess(_, _)
StrLess(a, b) ==
    IF b = << >> THEN FALSE
    ELSE IF a = << >> THEN TRUE
    ELSE IF Head(a) = Head(b) THEN StrLess(Tail(a), Tail(b))
    ELSE CodePoint(Head(a)) < CodePoint(Head(b))

\* sorted(set of str)
RECURSIVE Sorted(_)
Sorted(S) ==
    IF S = {} THEN << >>
    ELSE LET m == CHOOSE x \in S : \A y \in S \ {x} : StrLess(x, y)
         IN << m >> \o Sorted(S \ {m})

\* the elements of a list that satisfy a test
RECURSIVE DropEmptyAndDot(_)
DropEmptyAndDot(list) ==
    IF list = << >> THEN << >>
    ELSE IF Head(list) = << >> \/ Head(list) = << "." >> THEN DropEmptyAndDot(Tail(list))
    ELSE << Head(list) >> \o DropEmptyAndDot(Tail(list))

RECURSIVE DropEmpty(_)
DropEmpty(list) ==
    IF list = << >> THEN << >>
    ELSE IF Head(list) = << >> THEN DropEmpty(Tail(list))
    ELSE << Head(list) >> \o DropEmpty(Tail(list))

\* length of the longest common prefix of two lists
RECURSIVE CommonPrefixLen(_, _)
CommonPrefixLen(a, b) ==
    IF a = << >> \/ b = << >> \/ Head(a) # Head(b) THEN 0
    ELSE 1 + CommonPrefixLen(Tail(a), Tail(b))

(***************************************************************************)
(* posixpath                                                               *)
(***************************************************************************)
DOTDOT == << ".", "." >>
DOT == << "." >>

IsAbs(p) == StartsWith(p, << SEP >>)

\* os.path.join(a, b)
PathJoin(a, b) ==
    IF StartsWith(b, << SEP >>) THEN b
    ELSE IF a = << >> \/ EndsWith(a, << SEP >>) THEN a \o b
    ELSE a \o << SEP >> \o b

\* the component loop of os.path.normpath
RECURSIVE NormComps(_, _, _)
NormComps(comps, acc, initialSlashes) ==
    IF comps = << >> THEN acc
    ELSE LET c == Head(comps) IN
         IF c = << >> \/ c = DOT THEN NormComps(Tail(comps), acc, initialSlashes)
         ELSE IF c # DOTDOT
                 \/ (initialSlashes = 0 /\ acc = << >>)
                 \/ (acc # << >> /\ acc[Len(acc)] = DOTDOT)
              THEN NormComps(Tail(comps), Append(acc, c), initialSlashes)
         ELSE IF acc # << >>
              THEN NormComps(Tail(comps), SubSeq(acc, 1, Len(acc) - 1), initialSlashes)
         ELSE NormComps(Tail(comps), acc, initialSlashes)

\* os.path.normpath(p)
NormPath(p) ==
    IF p = << >> THEN DOT
    ELSE LET initialSlashes ==
                 IF ~StartsWith(p, << SEP >>) THEN 0
                 ELSE IF StartsWith(p, << SEP, SEP >>) /\ ~StartsWith(p, << SEP, SEP, SEP >>)
                      THEN 2 ELSE 1
             body == JoinWith(NormComps(Split(p, SEP), << >>, initialSlashes), SEP)
             res == [i \in 1..initialSlashes |-> SEP] \o body
         IN IF res = << >> THEN DOT ELSE res

\* os.path.commonpath([a, b]) for two absolute paths
CommonPath(a, b) ==
    LET sa == DropEmptyAndDot(Split(a, SEP))
        sb == DropEmptyAndDot(Split(b, SEP))
        n == CommonPrefixLen(sa, sb)
    IN << SEP >> \o JoinWith(SubSeq(sa, 1, n), SEP)

\* os.path.basename(p)
BaseName(p) == SubSeq(p, RFind(p, SEP) + 1, Len(p))

\* pathlib.PurePath.suffix of a file name
PathSuffix(name) ==
    LET i == RFind(name, ".")
    IN IF 1 < i /\ i < Len(name) THEN SubSeq(name, i, Len(name)) ELSE << >>

\* os.path.abspath(p); the working directory is the served directory
\* (main() changes to it), and every path the handler builds is absolute
AbsPath(p, cwd) == NormPath(IF IsAbs(p) THEN p ELSE PathJoin(cwd, p))

\* os.path.relpath(p, start)
RelPath(p, start, cwd) ==
    LET startList == DropEmpty(Split(AbsPath(start, cwd), SEP))
        pathList == DropEmpty(Split(AbsPath(p, cwd), SEP))
        i == CommonPrefixLen(startList, pathList)
        relList == [k \in 1..(Len(startList) - i) |-> DOTDOT]
                       \o SubSeq(pathList, i + 1, Len(pathList))
    IN IF relList = << >> THEN DOT ELSE JoinWith(relList, SEP)

(***************************************************************************)
(* urllib.parse                                                            *)
(***************************************************************************)
HexDigits == << "0","1","2","3","4","5","6","7","8","9","A","B","C","D","E","F" >>

\* characters urllib.parse.quote never escapes, plus its default safe='/'
IsQuoteSafe(c) == IsCased(c) \/ c \in Digits \/ c \in { "_", ".", "-", "~", "/" }

RECURSIVE Quote(_)
Quote(s) ==
    IF s = << >> THEN << >>
    ELSE LET c == Head(s) IN
         (IF IsQuoteSafe(c) THEN << c >>
          ELSE << "%", HexDigits[(CodePoint(c) \div 16) + 1], HexDigits[(CodePoint(c) % 16) + 1] >>)
         \o Quote(Tail(s))

\* 1-based index of the first character of s that is in cs, Len(s)+1 when none
FindFirst(s, cs) ==
    IF \E i \in 1..Len(s) : s[i] \in cs
    THEN CHOOSE i \in 1..Len(s) : s[i] \in cs /\ \A j \in 1..(i-1) : s[j] \notin cs
    ELSE Len(s) + 1

\* urllib.parse.urlparse(url).path for a request target, which starts with
\* '/' and so has no scheme: a leading '//' introduces a network location
\* that runs to the next '/', '?' or '#'; the fragment, the query and the
\* parameters of the last segment are split off
UrlParsePath(url) ==
    LET afterNetloc ==
            IF StartsWith(url, << SEP, SEP >>)
            THEN LET rest == SubSeq(url, 3, Len(url))
                 IN SubSeq(rest, FindFirst(rest, { "/", "?", "#" }), Len(rest))
            ELSE url
        noFragment == SubSeq(afterNetloc, 1, FindFirst(afterNetloc, { "#" }) - 1)
        noQuery == SubSeq(noFragment, 1, FindFirst(noFragment, { "?" }) - 1)
        lastSlash == RFind(noQuery, SEP)
        tail == SubSeq(noQuery, lastSlash + 1, Len(noQuery))
    IN SubSeq(noQuery, 1, lastSlash + FindFirst(tail, { ";" }) - 1)

(***************************************************************************)
(* The filesystem.  A node is named by its canonical path, the list of     *)
(* names from '/'.                                                         *)
(***************************************************************************)
N_docs == << "d","o","c","s" >>
N_docs2 == << "d","o","c","s","2" >>
N_sub == << "s","u","b" >>
N_out == << "o","u","t" >>
N_notes == << "m","y","-","n","o","t","e","s",".","m","d" >>
N_spaced == << "a"," ","b",".","m","d" >>
N_upper == << "X",".","M","D" >>
N_hidden == << ".","h",".","m","d" >>
N_data == << "d","a","t","a",".","t","x","t" >>
N_pipe == << "p","i","p","e",".","t","x","t" >>
N_todo == << "t","o"," ","d","o",".","t","x","t" >>
N_nested == << "n",".","m","d" >>
N_secret == << "s",".","m","d" >>

\* the served directory, as main() computes it from its argument
RootStr == << SEP >> \o N_docs

NoNode == [kind |-> "none", target |-> << >>, data |-> << >>]
Dir == [kind |-> "dir", target |-> << >>, data |-> << >>]
Fifo == [kind |-> "fifo", target |-> << >>, data |-> << >>]
File(bytes) == [kind |-> "file", target |-> << >>, data |-> bytes]
Link(to) == [kind |-> "link", target |-> to, data |-> << >>]

\* a byte that no UTF-8 text contains
BadByte == 255

\* The tree: the served directory /docs with Markdown files (one with a
\* space in its name, one with an upper-case extension, one hidden), two
\* plain files (one with a space in its name), a FIFO and a subdirectory; its sibling /docs2, whose name
\* extends the root's; optionally a symbolic link /docs/out -> /docs2.
Layout(withLink, notesDecodable) ==
    LET base ==
          (<< >> :> Dir)
       @@ (<< N_docs >> :> Dir)
       @@ (<< N_docs, N_notes >> :> File(IF notesDecodable THEN << 35, 104 >> ELSE << 35, BadByte >>))
       @@ (<< N_docs, N_spaced >> :> File(<< 97 >>))
       @@ (<< N_docs, N_upper >> :> File(<< 88, 89 >>))
       @@ (<< N_docs, N_hidden >> :> File(<< 46 >>))
       @@ (<< N_docs, N_data >> :> File(<< 1, 2, 3 >>))
       @@ (<< N_docs, N_todo >> :> File(<< 7 >>))
       @@ (<< N_docs, N_pipe >> :> Fifo)
       @@ (<< N_docs, N_sub >> :> Dir)
       @@ (<< N_docs, N_sub, N_nested >> :> File(<< 110 >>))
       @@ (<< N_docs2 >> :> Dir)
       @@ (<< N_docs2, N_secret >> :> File(<< 115, 51 >>))
    IN IF withLink
       THEN base @@ (<< N_docs, N_out >> :> Link(<< SEP >> \o N_docs2))
       ELSE base

Layouts == { Layout(l, d) : l \in BOOLEAN, d \in BOOLEAN }

Node(fsys, canon) == IF canon \in DOMAIN fsys THEN fsys[canon] ELSE NoNode

ENOENT == << << "E","N","O","E","N","T" >>, << >> >>

\* The kernel's path walk from directory cur over the components comps: ''
\* and '.' stay, '..' goes to the parent ('/' is its own parent), a name
\* goes to the child, and a symbolic link is replaced by its target.  Every
\* component, the empty one a trailing '/' leaves included, needs cur to be
\* a directory.  The result is the canonical path, or ENOENT.
RECURSIVE Walk(_, _, _, _)
Walk(fsys, cur, comps, hops) ==
    IF comps = << >> THEN cur
    ELSE IF Node(fsys, cur).kind # "dir" THEN ENOENT
    ELSE LET c == Head(comps)
             rest == Tail(comps)
             child == Append(cur, c)
         IN IF c = << >> \/ c = DOT THEN Walk(fsys, cur, rest, hops)
            ELSE IF c = DOTDOT
                 THEN Walk(fsys, SubSeq(cur, 1, Len(cur) - 1), rest, hops)
            ELSE IF Node(fsys, child).kind = "none" THEN ENOENT
            ELSE IF Node(fsys, child).kind = "link"
                 THEN IF hops = 0 THEN ENOENT
                      ELSE Walk(fsys, << >>, Split(Node(fsys, child).target, SEP) \o rest, hops - 1)
            ELSE Walk(fsys, child, rest, hops)

\* os.path.realpath of an absolute path whose every component exists
RealPath(fsys, p) == Walk(fsys, << >>, Split(p, SEP), MaxLinkHops)

\* os.stat(p): the node the path leads to, following links
Stat(fsys, p) == Node(fsys, RealPath(fsys, p))

\* os.path.isfile / os.path.isdir / Path.is_file / Path.is_dir
IsFile(fsys, p) == Stat(fsys, p).kind = "file"
IsDir(fsys, p) == Stat(fsys, p).kind = "dir"

\* os.listdir(p): the names of the directory's entries, in no order
ListDir(fsys, p) ==
    LET d == RealPath(fsys, p)
    IN { c[Len(c)] : c \in { n \in DOMAIN fsys : Len(n) = Len(d) + 1 /\ SubSeq(n, 1, Len(d)) = d } }

\* canon is root or below it
Under(canon, root) == Len(root) <= Len(canon) /\ SubSeq(canon, 1, Len(root)) = root

(***************************************************************************)
(* The response of one request.  emitted lists the status lines the        *)
(* handler produced with send_response, buffer is the header buffer of     *)
(* BaseHTTPRequestHandler, wire is what reached the client, writes counts  *)
(* the writes to the socket, exc is the exception in flight.  The faults of *)
(* the request's environment are failAt, the first write to the socket     *)
(* that fails (0: none; a broken connection stays broken), and readFails,  *)
(* whether open() and listdir() fail.                                      *)
(***************************************************************************)
NoBody == [kind |-> "none", src |-> ENOENT, title |-> << >>, back |-> << >>,
           data |-> << >>, rows |-> << >>]

\* what the handler writes: a status line, a header (num is the value of a
\* numeric header), or a body
StatusLine(code) ==
    [t |-> "status", code |-> code, key |-> "", val |-> "", num |-> 0, body |-> NoBody]
Header(k, v, n) ==
    [t |-> "header", code |-> 0, key |-> k, val |-> v, num |-> n, body |-> NoBody]
BodyChunk(b) ==
    [t |-> "body", code |-> 0, key |-> "", val |-> "", num |-> 0, body |-> b]

NewResponse(failAt, readFails) ==
    [emitted |-> << >>, buffer |-> << >>, wire |-> << >>, writes |-> 0,
     failAt |-> failAt, readFails |-> readFails, exc |-> "none"]

NoResponse == NewResponse(0, FALSE)

\* self.wfile.write(chunks)
WFileWrite(r, chunks) ==
    IF r.exc # "none" THEN r
    ELSE IF r.failAt = 0 \/ r.writes + 1 < r.failAt
         THEN [r EXCEPT !.writes = @ + 1, !.wire = @ \o chunks]
         ELSE [r EXCEPT !.writes = @ + 1, !.exc = "BrokenPipeError"]

\* send_response(code): the status line goes to the header buffer
SendResponse(r, code) ==
    IF r.exc # "none" THEN r
    ELSE [r EXCEPT !.emitted = Append(@, code), !.buffer = Append(@, StatusLine(code))]

\* send_header(k, v)
SendHeader(r, k, v, n) ==
    IF r.exc # "none" THEN r
    ELSE [r EXCEPT !.buffer = Append(@, Header(k, v, n))]

\* end_headers(): the buffer is written, and emptied once the write returned
EndHeaders(r) ==
    IF r.exc # "none" THEN r
    ELSE LET w == WFileWrite(r, r.buffer)
         IN IF w.exc = "none" THEN [w EXCEPT !.buffer = << >>] ELSE w

ErrorPage(code) == [NoBody EXCEPT !.kind = "error"]

\* send_error(code): status line, headers and the error page
SendError(r, code) ==
    WFileWrite(
        EndHeaders(
            SendHeader(
                SendHeader(SendResponse(r, code), "Connection", "close", 0),
                "Content-Type", "text/html;charset=utf-8", 0)),
        << BodyChunk(ErrorPage(code)) >>)

\* an except clause that catches every exception: what it runs starts with
\* no exception in flight
Caught(r) == [r EXCEPT !.exc = "none"]

(***************************************************************************)
(* DirectoryHandler                                                        *)
(***************************************************************************)
MD == << ".", "m", "d" >>

\* _pretty without .title()
PrettyNoTitle(name) == Replace(Replace(name, "-", " "), "_", " ")

\* _pretty(name)
Pretty(name) == Title(Replace(Replace(name, "-", " "), "_", " "))

\* ICONS.get(suffix, generic)
IconFor(fsys, itemPath) ==
    IF IsDir(fsys, itemPath) THEN "folder"
    ELSE IF Lower(PathSuffix(BaseName(itemPath))) = MD THEN "memo" ELSE "page"

\* open(file_path).read(): the bytes, or the exception; text is TRUE for
\* mode "r" with encoding utf-8, which also decodes
ReadFails(fsys, filePath, readFails, text) ==
    IF readFails \/ Stat(fsys, filePath).kind # "file" THEN "OSError"
    ELSE IF text /\ \E i \in 1..Len(Stat(fsys, filePath).data) :
                        Stat(fsys, filePath).data[i] = BadByte
         THEN "UnicodeDecodeError"
    ELSE "none"

\* serve_markdown(file_path): only ImportError is caught, and the fallback
\* it runs is outside every try
ServeMarkdown(fsys, r, filePath, mdInstalled) ==
    LET err == ReadFails(fsys, filePath, r.readFails, TRUE)
        node == Stat(fsys, filePath)
        page == [NoBody EXCEPT !.kind = "markdown_page",
                               !.src = RealPath(fsys, filePath),
                               !.title = Pretty(BaseName(filePath)),
                               !.back = << SEP >>,
                               !.data = node.data]
        plain == [NoBody EXCEPT !.kind = "plain_text",
                                !.src = RealPath(fsys, filePath),
                                !.data = node.data]
    IN IF err # "none" THEN [r EXCEPT !.exc = err]
       ELSE IF mdInstalled
            THEN WFileWrite(
                     EndHeaders(SendHeader(SendResponse(r, 200), "Content-type", "text/html", 0)),
                     << BodyChunk(page) >>)
            ELSE WFileWrite(
                     EndHeaders(SendHeader(SendResponse(r, 200), "Content-type",
                                           "text/plain; charset=utf-8", 0)),
                     << BodyChunk(plain) >>)

\* serve_file(file_path)
ServeFile(fsys, r, filePath) ==
    LET err == ReadFails(fsys, filePath, r.readFails, FALSE)
        node == Stat(fsys, filePath)
        raw == [NoBody EXCEPT !.kind = "raw", !.src = RealPath(fsys, filePath),
                              !.data = node.data]
        tried == IF err # "none" THEN [r EXCEPT !.exc = err]
                 ELSE WFileWrite(
                          EndHeaders(SendHeader(SendResponse(r, 200), "Content-Length", "",
                                                Len(node.data))),
                          << BodyChunk(raw) >>)
    IN IF tried.exc # "none" THEN SendError(Caught(tried), 500) ELSE tried

\* the loop body of serve_directory: the row of one item, or nothing
ListingRow(fsys, dirPath, item, baseDir) ==
    LET itemPath == PathJoin(dirPath, item)
    IN IF StartsWith(item, << "." >>) THEN << >>
       ELSE IF IsFile(fsys, itemPath) /\ Lower(PathSuffix(item)) # MD THEN << >>
       ELSE << [icon |-> IconFor(fsys, itemPath),
                href |-> << SEP >> \o Quote(RelPath(itemPath, baseDir, baseDir)),
                label |-> Pretty(item),
                suffix |-> IF IsDir(fsys, itemPath) THEN << SEP >> ELSE << >>,
                name |-> item] >>

RECURSIVE ListingRows(_, _, _, _)
ListingRows(fsys, dirPath, items, baseDir) ==
    IF items = << >> THEN << >>
    ELSE ListingRow(fsys, dirPath, Head(items), baseDir)
             \o ListingRows(fsys, dirPath, Tail(items), baseDir)

\* serve_directory(dir_path)
ServeDirectory(fsys, r, dirPath, baseDir) ==
    LET current == RelPath(dirPath, baseDir, baseDir)
        listing == [NoBody EXCEPT !.kind = "listing",
                                  !.src = RealPath(fsys, dirPath),
                                  !.title = Pretty(current),
                                  !.rows = ListingRows(fsys, dirPath,
                                                       Sorted(ListDir(fsys, dirPath)), baseDir)]
        tried == IF r.readFails \/ ~IsDir(fsys, dirPath) THEN [r EXCEPT !.exc = "OSError"]
                 ELSE WFileWrite(
                          EndHeaders(SendHeader(SendResponse(r, 200), "Content-type", "text/html", 0)),
                          << BodyChunk(listing) >>)
    IN IF tried.exc # "none" THEN SendError(Caught(tried), 500) ELSE tried

\* the path do_GET looks up
FilePath(reqPath, baseDir) == PathJoin(baseDir, LStrip(UrlParsePath(reqPath), SEP))

\* a containment test on the characters of the path instead of its components
ForbiddenByPrefix(filePath, baseDir) == ~StartsWith(AbsPath(filePath, baseDir), baseDir)

\* the containment test of do_GET
Forbidden(filePath, baseDir) == CommonPath(baseDir, AbsPath(filePath, baseDir)) # baseDir

\* do_GET
DoGet(fsys, r, reqPath, baseDir, mdInstalled) ==
    LET filePath == FilePath(reqPath, baseDir)
    IN IF Forbidden(filePath, baseDir) THEN SendError(r, 403)
       ELSE IF IsFile(fsys, filePath)
            THEN IF EndsWith(filePath, MD)
                 THEN ServeMarkdown(fsys, r, filePath, mdInstalled)
                 ELSE ServeFile(fsys, r, filePath)
       ELSE IF IsDir(fsys, filePath) THEN ServeDirectory(fsys, r, filePath, baseDir)
       ELSE SendError(r, 404)

(***************************************************************************)
(* The requests.  self.path is the target of the request line: '/' and     *)
(* '/'-separated segments.  A target holds no space (the request line is   *)
(* split at white space before do_GET runs), so a client names a file      *)
(* whose name has one by its percent-encoding.                             *)
(***************************************************************************)
Segments ==
    { << >>, DOTDOT, N_sub, N_docs2, N_out, N_notes, N_upper, N_data, N_pipe,
      N_nested, N_secret,
      << "a","%","2","0","b",".","m","d" >>,
      << "t","o","%","2","0","d","o",".","t","x","t" >>,
      << "s","u","b","?","q" >> }

RECURSIVE SegLists(_)
SegLists(n) ==
    IF n = 0 THEN { << >> }
    ELSE LET shorter == SegLists(n - 1)
         IN shorter \cup { Append(l, s) : l \in { x \in shorter : Len(x) = n - 1 }, s \in Segments }

RequestTargets == { << SEP >> \o JoinWith(l, SEP) : l \in SegLists(MaxSegs) \ { << >> } }

\* self.path as BaseHTTPRequestHandler.parse_request leaves it for do_GET:
\* the target of the request line, its leading slashes collapsed into one
\* when there are several
ParseRequest(t) == IF StartsWith(t, << SEP, SEP >>) THEN << SEP >> \o LStrip(t, SEP) ELSE t

RequestPaths == { ParseRequest(t) : t \in RequestTargets }

\* the write of a response that fails first: none, the headers, the body
WriteFailPoints == 0..2

\* what main() can be given as its argument: a directory, a regular file
Targets == { RootStr, RootStr \o << SEP >> \o N_data }

(***************************************************************************)
(* State                                                                   *)
(***************************************************************************)
VARIABLES
    fs,                \* the filesystem
    markdownInstalled, \* whether 'import markdown' succeeds
    target,            \* main(): the directory to serve; the handler's base_dir
    pc,                \* where the main thread is
    exitCode,          \* the exit status of the process, NoExit while it runs
    handlerInstalled,  \* whether signal.signal(SIGINT, shutdown) has run
    shutdownRequest,   \* BaseServer.__shutdown_request
    isShutDown,        \* BaseServer.__is_shut_down, an Event
    sigAt,             \* where the main thread was when SIGINT ran the handler
    path,              \* self.path of the request being handled
    resp               \* the response of that request

vars == << fs, markdownInstalled, target, pc, exitCode, handlerInstalled,
           shutdownRequest, isShutDown, sigAt, path, resp >>

NoExit == -1
\* the status of a process that an unhandled KeyboardInterrupt ends
KilledBySigint == -2

Init ==
    /\ fs \in Layouts
    /\ markdownInstalled \in BOOLEAN
    /\ target \in Targets
    /\ pc = "start"
    /\ exitCode = NoExit
    /\ handlerInstalled = FALSE
    /\ shutdownRequest = FALSE
    /\ isShutDown = FALSE
    /\ sigAt = "none"
    /\ path = << >>
    /\ resp = NoResponse

\* main(), up to the open browser: the argument is checked, the listener bound
Main ==
    /\ pc = "start"
    /\ IF ~IsDir(fs, target)
       THEN pc' = "exited" /\ exitCode' = 1
       ELSE pc' = "bound" /\ exitCode' = exitCode
    /\ UNCHANGED << fs, markdownInstalled, target, handlerInstalled, shutdownRequest,
                    isShutDown, sigAt, path, resp >>

\* signal.signal(signal.SIGINT, shutdown)
InstallHandler ==
    /\ pc = "bound"
    /\ handlerInstalled' = TRUE
    /\ pc' = "installed"
    /\ UNCHANGED << fs, markdownInstalled, target, exitCode, shutdownRequest,
                    isShutDown, sigAt, path, resp >>

\* httpd.serve_forever() is entered: the Event is cleared
EnterServeForever ==
    /\ pc = "installed"
    /\ isShutDown' = FALSE
    /\ pc' = "serving"
    /\ UNCHANGED << fs, markdownInstalled, target, exitCode, handlerInstalled,
                    shutdownRequest, sigAt, path, resp >>

\* one turn of the loop of serve_forever.  It ends the loop when a shutdown
\* was requested (the flag is reset, the Event set, main() returns).
\* Otherwise it takes a request and handles it: a DirectoryHandler is made
\* for it, and do_GET runs to its end, or to the exception that leaves it
\* (the server logs it and closes the connection).
ServeForever ==
    /\ pc = "serving"
    /\ IF shutdownRequest
       THEN /\ shutdownRequest' = FALSE
            /\ isShutDown' = TRUE
            /\ pc' = "exited"
            /\ exitCode' = 0
            /\ UNCHANGED << path, resp >>
       ELSE /\ \E p \in RequestPaths, readFails \in BOOLEAN, failAt \in WriteFailPoints :
                  /\ path' = p
                  /\ resp' = DoGet(fs, NewResponse(failAt, readFails), p, target,
                                   markdownInstalled)
            /\ pc' = "responded"
            /\ UNCHANGED << shutdownRequest, isShutDown, exitCode >>
    /\ UNCHANGED << fs, markdownInstalled, target, handlerInstalled, sigAt >>

\* the request is over: its handler object, made for it alone, is dropped
\* and the connection closed
FinishRequest ==
    /\ pc = "responded"
    /\ path' = << >>
    /\ resp' = NoResponse
    /\ pc' = "serving"
    /\ UNCHANGED << fs, markdownInstalled, target, exitCode, handlerInstalled,
                    shutdownRequest, isShutDown, sigAt >>

\* SIGINT arrives.  Without the handler it raises KeyboardInterrupt in
\* main().  With it, shutdown(sig, frame) runs on the main thread, on top of
\* whatever that thread was doing (waiting for a request, or in the middle
\* of a turn of the loop): httpd.shutdown() sets the request flag
\* and waits for the Event, and sys.exit(0) follows once the wait returns.
Sigint ==
    /\ pc \in { "bound", "installed", "serving", "responded" }
    /\ IF ~handlerInstalled
       THEN /\ pc' = "exited"
            /\ exitCode' = KilledBySigint
            /\ UNCHANGED << shutdownRequest, sigAt >>
       ELSE /\ shutdownRequest' = TRUE
            /\ sigAt' = pc
            /\ IF isShutDown
               THEN pc' = "exited" /\ exitCode' = 0
               ELSE pc' = "in_shutdown" /\ exitCode' = exitCode
    /\ UNCHANGED << fs, markdownInstalled, target, handlerInstalled, isShutDown,
                    path, resp >>

Next ==
    \/ Main
    \/ InstallHandler
    \/ EnterServeForever
    \/ ServeForever
    \/ FinishRequest
    \/ Sigint

Spec == Init /\ [][Next]_vars

\* the main thread takes its next step when it has one; a request or a
\* signal arrives when it arrives
FairSpec ==
    /\ Spec
    /\ WF_vars(Main)
    /\ WF_vars(InstallHandler)
    /\ WF_vars(EnterServeForever)
    /\ WF_vars(shutdownRequest /\ ServeForever)
    /\ WF_vars(FinishRequest)

(***************************************************************************)
(* Vocabulary of the properties                                            *)
(***************************************************************************)
ContentKinds == { "markdown_page", "plain_text", "raw", "listing" }

BodiesOnWire(r) == { r.wire[i].body : i \in { j \in 1..Len(r.wire) : r.wire[j].t = "body" } }

HeaderOnWire(r, k, v) ==
    \E i \in 1..Len(r.wire) : r.wire[i].t = "header" /\ r.wire[i].key = k /\ r.wire[i].val = v

\* the status the client reads: the first thing on the wire
ClientStatus(r) == IF r.wire # << >> /\ r.wire[1].t = "status" THEN r.wire[1].code ELSE 0

\* the request met no fault of its environment
NoFault(r) == r.failAt = 0 /\ ~r.readFails

Decodable(bytes) == \A i \in 1..Len(bytes) : bytes[i] # BadByte

\* the served directory, canonical
RootCanon == RealPath(fs, target)

\* '.' and '..' resolved over a list of components, from the list stack
RECURSIVE LexicalResolve(_, _)
LexicalResolve(stack, comps) ==
    IF comps = << >> THEN stack
    ELSE IF Head(comps) = << >> \/ Head(comps) = DOT THEN LexicalResolve(stack, Tail(comps))
    ELSE IF Head(comps) = DOTDOT
         THEN LexicalResolve(SubSeq(stack, 1, Len(stack) - 1), Tail(comps))
    ELSE LexicalResolve(Append(stack, Head(comps)), Tail(comps))

\* where the URL path P leads, its leading separators stripped and the
\* rest joined to the root
LexicalTarget(P) == LexicalResolve(DropEmpty(Split(target, SEP)), Split(LStrip(P, SEP), SEP))

OutsideRoot(P) == ~Under(LexicalTarget(P), DropEmpty(Split(target, SEP)))

\* the components of LexicalTarget(P) below the root
BelowRoot(P) == SubSeq(LexicalTarget(P), Len(DropEmpty(Split(target, SEP))) + 1,
                       Len(LexicalTarget(P)))

\* the path string of a canonical path
PathString(canon) == << SEP >> \o JoinWith(canon, SEP)

\* the URL of the node canon below the root: its path from the root,
\* percent-encoded
UrlOf(canon) == << SEP >> \o Quote(JoinWith(SubSeq(canon, Len(RootCanon) + 1, Len(canon)), SEP))

\* percent-decoding
ModelChars == { LowerCase[i] : i \in 1..26 } \cup { UpperCase[i] : i \in 1..26 } \cup Digits
                  \cup { " ", "#", "%", "-", ".", "/", "?", "_", "~" }
HexVal(h) == (CHOOSE i \in 1..16 : HexDigits[i] = h) - 1
RECURSIVE Unquote(_)
Unquote(s) ==
    IF s = << >> THEN << >>
    ELSE IF Head(s) = "%" /\ Len(s) >= 3
         THEN << CHOOSE c \in ModelChars : CodePoint(c) = 16 * HexVal(s[2]) + HexVal(s[3]) >>
                  \o Unquote(SubSeq(s, 4, Len(s)))
    ELSE << Head(s) >> \o Unquote(Tail(s))

\* the request was dispatched to serve_markdown
DispatchedAsMarkdown ==
    /\ ~Forbidden(FilePath(path, target), target)
    /\ IsFile(fs, FilePath(path, target))
    /\ EndsWith(FilePath(path, target), MD)

\* the regular files below the root
FilesUnderRoot ==
    { f \in DOMAIN fs : fs[f].kind = "file" /\ Under(f, RootCanon) /\ Len(f) > Len(RootCanon) }

Str_MyNotes == << "M","y"," ","N","o","t","e","s" >>
Str_MyNotesMd == << "M","y"," ","N","o","t","e","s",".","M","d" >>
Url_MyNotes == << "/","m","y","-","n","o","t","e","s",".","m","d" >>
Url_Spaced == << "/","a","%","2","0","b",".","m","d" >>

(***************************************************************************)
(* C1.  Every filesystem path whose content is served (a rendered or plain *)
(* Markdown file, a raw file, a directory listing) is the root directory   *)
(* or a descendant of it in the canonicalized filesystem, symbolic links   *)
(* under the root included.                                                *)
(***************************************************************************)
C1_ServedUnderRoot ==
    \A b \in BodiesOnWire(resp) : b.kind \in ContentKinds => Under(b.src, RootCanon)

(***************************************************************************)
(* C2.  A GET whose URL path, its leading separators stripped, joined to   *)
(* the root and its '.' and '..' resolved, lies outside the root is        *)
(* answered 403 and serves no file and no listing, whether or not the      *)
(* target exists.                                                          *)
(***************************************************************************)
C2_OutsideIsForbidden ==
    (pc = "responded" /\ OutsideRoot(UrlParsePath(path)))
        => /\ resp.emitted = << 403 >>
           /\ \A b \in BodiesOnWire(resp) : b.kind \notin ContentKinds
           /\ resp.failAt = 0 => ClientStatus(resp) = 403

\* a request for the existing sibling directory /docs2 was answered 403
C2_Witness ==
    /\ pc = "responded"
    /\ OutsideRoot(UrlParsePath(path))
    /\ LexicalTarget(UrlParsePath(path)) = << N_docs2 >>
    /\ IsDir(fs, FilePath(path, target))
    /\ ClientStatus(resp) = 403

(***************************************************************************)
(* C3.  Once the interrupt signal has run the handler while the server was *)
(* in serve_forever, the process eventually exits with status 0.           *)
(***************************************************************************)
C3_SigintExits ==
    (sigAt \in { "serving", "responded" }) ~> (pc = "exited" /\ exitCode = 0)

(***************************************************************************)
(* C4.  A GET on the URL of a directory D under the root yields 200,       *)
(* text/html and a listing of exactly the non-hidden subdirectories of D   *)
(* and the non-hidden files of D with extension .md (in any letter case),  *)
(* in lexicographic order of name, whatever the kinds of D's entries.      *)
(* Stated for requests that meet no fault and reach D through no link.     *)
(***************************************************************************)
C4_Expected(D) ==
    { n \in ListDir(fs, PathString(D)) :
        /\ Head(n) # "."
        /\ \/ Stat(fs, PathString(Append(D, n))).kind = "dir"
           \/ /\ Stat(fs, PathString(Append(D, n))).kind = "file"
              /\ EndsWith(Lower(n), MD) }

C4_ListingExact ==
    LET D == LexicalTarget(UrlParsePath(path))
    IN (/\ pc = "responded"
        /\ NoFault(resp)
        /\ Under(D, RootCanon)
        /\ Node(fs, D).kind = "dir"
        /\ RealPath(fs, FilePath(path, target)) = D)
       => /\ resp.emitted = << 200 >>
          /\ HeaderOnWire(resp, "Content-type", "text/html")
          /\ \E b \in BodiesOnWire(resp) :
                /\ b.kind = "listing"
                /\ { b.rows[i].name : i \in 1..Len(b.rows) } = C4_Expected(D)
                /\ \A i \in 1..(Len(b.rows) - 1) : StrLess(b.rows[i].name, b.rows[i+1].name)

(***************************************************************************)
(* C5.  When a GET is dispatched to the Markdown renderer and reading the  *)
(* file or decoding it as UTF-8 fails, the client receives a 500 response, *)
(* with Markdown support and on the plain-text fallback alike.             *)
(***************************************************************************)
C5_MarkdownReadFailureIs500 ==
    (/\ pc = "responded"
     /\ DispatchedAsMarkdown
     /\ ReadFails(fs, FilePath(path, target), resp.readFails, TRUE) # "none"
     /\ resp.failAt = 0)
    => ClientStatus(resp) = 500

(***************************************************************************)
(* C6.  With Markdown support, a GET on the URL of an existing regular     *)
(* file F under the root whose path ends in .md yields 200, text/html and  *)
(* a page whose title holds F's prettified name and which links back to    *)
(* '/'.  Stated for readable, decodable files and fault-free requests.     *)
(***************************************************************************)
C6_MarkdownFileServed ==
    \A f \in FilesUnderRoot :
        (/\ pc = "responded"
         /\ markdownInstalled
         /\ EndsWith(f[Len(f)], MD)
         /\ Decodable(fs[f].data)
         /\ path = UrlOf(f)
         /\ NoFault(resp))
        => /\ resp.emitted = << 200 >>
           /\ HeaderOnWire(resp, "Content-type", "text/html")
           /\ \E b \in BodiesOnWire(resp) :
                 /\ b.kind = "markdown_page"
                 /\ b.src = f
                 /\ b.title = Pretty(f[Len(f)])
                 /\ b.back = << SEP >>

(***************************************************************************)
(* C7, as the specification has it.  In a listing the entry of the file    *)
(* my-notes.md has the label 'My Notes' and the link /my-notes.md.         *)
(***************************************************************************)
C7_LabelIsMyNotes ==
    \A b \in BodiesOnWire(resp) :
        (pc = "responded" /\ b.kind = "listing")
        => \A i \in 1..Len(b.rows) :
               b.rows[i].name = N_notes
               => b.rows[i].label = Str_MyNotes /\ b.rows[i].href = Url_MyNotes

(***************************************************************************)
(* C7, amended.  In the listing of the root the entry of my-notes.md has   *)
(* the label 'My Notes.Md' and the link /my-notes.md.  In every listing    *)
(* the label of an entry is its whole name, extension included, with '-'   *)
(* and '_' replaced by spaces and a letter upper-cased exactly when no     *)
(* letter precedes it; the link holds only URL-safe characters and         *)
(* percent-decodes to '/' followed by the entry's path from the root, as   *)
(* the request named the directory.                                        *)
(***************************************************************************)
C7_LabelIsPrettifiedName ==
    \A b \in BodiesOnWire(resp) :
        (pc = "responded" /\ b.kind = "listing")
        => \A i \in 1..Len(b.rows) :
             LET name == b.rows[i].name
                 label == b.rows[i].label
                 href == b.rows[i].href
                 dir == BelowRoot(UrlParsePath(path))
             IN /\ (name = N_notes /\ dir = << >>)
                    => (label = Str_MyNotesMd /\ href = Url_MyNotes)
                /\ Len(label) = Len(name)
                /\ \A k \in 1..Len(name) :
                      /\ name[k] \in { "-", "_" } => label[k] = " "
                      /\ name[k] \notin { "-", "_" } => ToLower(label[k]) = ToLower(name[k])
                      /\ IsCased(label[k])
                            => (IsUpper(label[k]) <=> (k = 1 \/ ~IsCased(label[k-1])))
                /\ \A k \in 1..Len(href) : IsQuoteSafe(href[k]) \/ href[k] = "%"
                /\ Unquote(href) = << SEP >> \o JoinWith(Append(dir, name), SEP)

\* the root was listed, with my-notes.md and 'a b.md' among its entries
C7_Witness ==
    /\ pc = "responded"
    /\ \E b \in BodiesOnWire(resp) :
          /\ b.kind = "listing"
          /\ b.src = RootCanon
          /\ \E i \in 1..Len(b.rows) :
                b.rows[i].name = N_notes /\ b.rows[i].label = Str_MyNotesMd
          /\ \E i \in 1..Len(b.rows) :
                b.rows[i].name = N_spaced /\ b.rows[i].href = Url_Spaced

(***************************************************************************)
(* C8.  A GET on the exact URL of an existing regular file F under the     *)
(* root that is not dispatched as Markdown, listed or not, yields 200, a   *)
(* Content-Length equal to F's size and a body identical to F's contents.  *)
(* Stated for fault-free requests.                                         *)
(***************************************************************************)
C8_RawFileServed ==
    \A f \in FilesUnderRoot :
        (/\ pc = "responded"
         /\ ~EndsWith(f[Len(f)], MD)
         /\ path = UrlOf(f)
         /\ NoFault(resp))
        => /\ resp.emitted = << 200 >>
           /\ \E i \in 1..Len(resp.wire) :
                 /\ resp.wire[i].t = "header"
                 /\ resp.wire[i].key = "Content-Length"
                 /\ resp.wire[i].num = Len(fs[f].data)
           /\ \E b \in BodiesOnWire(resp) :
                 b.kind = "raw" /\ b.src = f /\ b.data = fs[f].data

(***************************************************************************)
(* C9.  The links of a listing round-trip through the dispatcher: a GET on *)
(* the link of a listed directory yields that directory's listing, and a   *)
(* GET on the link of a listed Markdown file yields that file's rendered   *)
(* page (200, text/html), for names that quoting escapes and .md in any    *)
(* letter case too.  Stated with Markdown support, for fault-free          *)
(* requests, listings of directories under the root, and entries that are  *)
(* directories or decodable regular files.                                 *)
(***************************************************************************)
C9_ListingLinksRoundTrip ==
    \A b \in BodiesOnWire(resp) :
        (/\ pc = "responded"
         /\ markdownInstalled
         /\ NoFault(resp)
         /\ b.kind = "listing"
         /\ Under(b.src, RootCanon))
        => \A i \in 1..Len(b.rows) :
             LET entry == RealPath(fs, PathString(Append(b.src, b.rows[i].name)))
                 again == DoGet(fs, NewResponse(0, FALSE), b.rows[i].href, target,
                                markdownInstalled)
             IN (\/ Node(fs, entry).kind = "dir"
                 \/ Node(fs, entry).kind = "file" /\ Decodable(Node(fs, entry).data))
                => /\ again.emitted = << 200 >>
                   /\ \E c \in BodiesOnWire(again) :
                         /\ c.src = entry
                         /\ c.kind = IF Node(fs, entry).kind = "dir"
                                     THEN "listing" ELSE "markdown_page"

(***************************************************************************)
(* C10.  Every GET ends with exactly one status line emitted, one of 200,  *)
(* 403, 404 and 500, under any read and write failures: never none, and    *)
(* never a second one after a 200.                                         *)
(***************************************************************************)
C10_ExactlyOneStatus ==
    pc = "responded"
        => Len(resp.emitted) = 1 /\ resp.emitted[1] \in { 200, 403, 404, 500 }

====
